---- MODULE Spec2Model ----
(***************************************************************************)
(* Model of the two Home Assistant recovery tools:                         *)
(*   - analyze_recovered_files.py  (the classifier, HARecoveryAnalyzer)    *)
(*   - validate_yaml_files.py      (the validator, HAYAMLValidator)        *)
(* File names, file contents, match types and list lines are strings; the  *)
(* regular expressions of the code are evaluated on them character by      *)
(* character.                                                              *)
(***************************************************************************)
EXTENDS Integers, Sequences, FiniteSets, TLC

VARIABLES
    \* ---- classifier (analyze_recovered_files.py) ----
    pc,             \* position of main() of the classifier
    argc,           \* len(sys.argv)
    root,           \* what recovery_folder names: "missing", "dir" or "file"
    tree,           \* the files rglob has yielded so far, in traversal order
    file_count,     \* scan_files: file_count
    ha_count,       \* scan_files: ha_count
    results,        \* HARecoveryAnalyzer.results
    report,         \* what generate_report returned (and main wrote)
    priority_files, \* the lines save_file_list wrote
    written,        \* names of the files written into the working directory
    exit_code,      \* process exit status, -1 while running
    \* ---- validator (validate_yaml_files.py) ----
    vpc,            \* position of main() of the validator
    vargc,          \* len(sys.argv)
    list_exists,    \* whether the file list named by argv[1] exists
    list_lines,     \* the raw lines of the file list
    file_paths,     \* main: file_paths, the stripped non-empty lines
    checked,        \* per processed line: the line and the path that was tested
    yaml_files,     \* main: yaml_files, the paths handed to validate_files
    vindex,         \* validate_files: number of paths already validated
    parse_calls,    \* the paths for which yaml.safe_load was called
    vresults,       \* HAYAMLValidator.results
    vreport,        \* what generate_report returned (and main wrote)
    vexit_code      \* process exit status, -1 while running

cvars == <<pc, argc, root, tree, file_count, ha_count, results, report,
           priority_files, written, exit_code>>
vvars == <<vpc, vargc, list_exists, list_lines, file_paths, checked, yaml_files,
           vindex, parse_calls, vresults, vreport, vexit_code>>
vars == <<cvars, vvars>>

-----------------------------------------------------------------------------
(* Bounds of the model.                                                    *)

\* number of regular files in the scanned tree
MaxFiles == 2
\* number of lines in the validator's file list
MaxLines == 2
\* size of the digest space of the modelled hash
HashSpace == 251

-----------------------------------------------------------------------------
(* Strings.                                                                *)

CharAt(s, i) == SubSeq(s, i, i)

InStr(c, s) == \E i \in 1..Len(s) : CharAt(s, i) = c

IndexOf(c, s) ==
    IF InStr(c, s) THEN CHOOSE i \in 1..Len(s) : CharAt(s, i) = c ELSE 0

UpperChars == "ABCDEFGHIJKLMNOPQRSTUVWXYZ"
LowerChars == "abcdefghijklmnopqrstuvwxyz"
DigitChars == "0123456789"

\* what str.strip() removes and the regular expression \s matches
Whitespace == " \t\n\r\f"

\* a stand-in character for a byte that is not valid UTF-8 (0xFF)
InvalidByte == "@"

\* str.lower() on one character
lower_char(c) ==
    LET i == IndexOf(c, UpperChars) IN IF i = 0 THEN c ELSE CharAt(LowerChars, i)

\* str.lower()
RECURSIVE lower(_)
lower(s) == IF Len(s) = 0 THEN "" ELSE lower_char(Head(s)) \o lower(Tail(s))

\* t in s
Contains(t, s) ==
    \E i \in 1..(Len(s) - Len(t) + 1) : SubSeq(s, i, i + Len(t) - 1) = t

\* s.endswith(t)
EndsWith(s, t) ==
    Len(t) <= Len(s) /\ SubSeq(s, Len(s) - Len(t) + 1, Len(s)) = t

\* n copies of the character c
RECURSIVE Repeat(_, _)
Repeat(c, n) ==
    IF n <= 0 THEN ""
    ELSE LET half == Repeat(c, n \div 2)
         IN half \o half \o (IF n % 2 = 1 THEN c ELSE "")

Min(a, b) == IF a <= b THEN a ELSE b

\* open(..., encoding='utf-8', errors='ignore'): undecodable bytes are dropped
RECURSIVE Decode(_)
Decode(b) ==
    IF Len(b) = 0 THEN ""
    ELSE IF Head(b) = InvalidByte THEN Decode(Tail(b))
    ELSE Head(b) \o Decode(Tail(b))

-----------------------------------------------------------------------------
(* Regular expressions of the classifier: a pattern is a set of            *)
(* alternatives, an alternative a sequence of atoms <<text, optional>>.    *)

Lit(s) == <<s, FALSE>>
Opt(s) == <<s, TRUE>>

\* the words an alternative matches
RECURSIVE Language(_)
Language(atoms) ==
    IF Len(atoms) = 0 THEN {""}
    ELSE LET rest == Language(Tail(atoms))
             a == Head(atoms)
         IN { a[1] \o w : w \in rest } \cup (IF a[2] THEN rest ELSE {})

\* pattern.search(s)
re_search(p, s) ==
    LET subject == IF p.ignorecase THEN lower(s) ELSE s
    IN \E alt \in p.alts : \E w \in Language(alt) : Contains(w, subject)

\* name\.ya?ml with an optional plural s, re.IGNORECASE
NamePattern(stem, plural) ==
    [ignorecase |-> TRUE,
     alts |-> { (IF plural THEN <<Lit(stem), Opt("s")>> ELSE <<Lit(stem)>>)
                \o <<Lit(".y"), Opt("a"), Lit("ml")>> }]

\* lit1|lit2|...
Alternatives(lits, icase) ==
    [ignorecase |-> icase, alts |-> { <<Lit(l)>> : l \in lits }]

\* self.ha_patterns, in insertion order
ha_patterns ==
    << [name |-> "configuration", re |-> NamePattern("configuration", FALSE)],
       [name |-> "automations",   re |-> NamePattern("automation", TRUE)],
       [name |-> "scenes",        re |-> NamePattern("scene", TRUE)],
       [name |-> "secrets",       re |-> NamePattern("secret", TRUE)],
       [name |-> "groups",        re |-> NamePattern("group", TRUE)],
       [name |-> "customize",     re |-> NamePattern("customize", FALSE)],
       [name |-> "known_devices", re |-> NamePattern("known_devices", FALSE)],
       [name |-> "scripts",       re |-> NamePattern("script", TRUE)] >>

\* self.ha_content_patterns, in insertion order
ha_content_patterns ==
    << [name |-> "homeassistant",
        re |-> Alternatives({"homeassistant:"}, FALSE)],
       [name |-> "automation",
        re |-> Alternatives({"- alias:", "trigger:", "action:", "condition:"}, FALSE)],
       [name |-> "sensor",
        re |-> Alternatives({"sensor:", "platform:"}, FALSE)],
       [name |-> "switch",
        re |-> Alternatives({"switch:", "platform:"}, FALSE)],
       [name |-> "light",
        re |-> Alternatives({"light:", "platform:"}, FALSE)],
       [name |-> "device_tracker",
        re |-> Alternatives({"device_tracker:"}, FALSE)],
       [name |-> "esp_device",
        re |-> Alternatives({"esphome", "esp32", "esp8266"}, TRUE)],
       [name |-> "integration",
        re |-> Alternatives({"integration:", "component:"}, FALSE)] >>

\* index of the first pattern of the table that matches s, 0 when none does
FirstMatch(table, s) ==
    IF \E i \in 1..Len(table) : re_search(table[i].re, s)
    THEN CHOOSE i \in 1..Len(table) :
            /\ re_search(table[i].re, s)
            /\ \A j \in 1..(i - 1) : ~re_search(table[j].re, s)
    ELSE 0

-----------------------------------------------------------------------------
(* The classifier: analyze_recovered_files.py                              *)

\* f.read(2048): the number of characters is_likely_ha_file reads
ReadLimit == 2048

\* 10 * 1024 * 1024: files larger than this are only recorded as large files
LargeFileThreshold == 10 * 1024 * 1024

\* the value get_file_hash returns when the file cannot be read
None == -1

\* A file of the tree is [dir, name, bytes, pad, stat_ok, readable]: its bytes
\* are `bytes` followed by `pad` newline bytes (so that a file can be larger
\* than the threshold without its content being spelled out).
st_size(f) == Len(f.bytes) + f.pad

\* str(file_path)
PathOf(f) == f.dir \o "/" \o f.name

\* pathlib's PurePath.suffix of a file name
suffix(name) ==
    LET dots == { i \in 1..Len(name) : CharAt(name, i) = "." }
        i == IF dots = {} THEN 0 ELSE CHOOSE d \in dots : \A e \in dots : e <= d
    IN IF 1 < i /\ i < Len(name) THEN SubSeq(name, i, Len(name)) ELSE ""

\* f.read(n) on a file opened as text with errors='ignore'
read_text(f, n) ==
    LET decoded == Decode(f.bytes)
    IN IF Len(decoded) >= n THEN SubSeq(decoded, 1, n)
       ELSE decoded \o Repeat("\n", Min(f.pad, n - Len(decoded)))

\* the characters the modelled digest tells apart
Alphabet == LowerChars \o UpperChars \o DigitChars \o Whitespace \o ":-._@/"

\* hasher.update over the bytes of the file, then hexdigest
RECURSIVE Fold(_, _)
Fold(h, b) ==
    IF Len(b) = 0 THEN h
    ELSE Fold((h * 31 + IndexOf(Head(b), Alphabet)) % HashSpace, Tail(b))

Digest(f) == (Fold(0, f.bytes) + 7 * f.pad) % HashSpace

\* HARecoveryAnalyzer.get_file_hash
get_file_hash(f) == IF f.readable THEN Digest(f) ELSE None

\* is_likely_ha_file with the content signatures tried before the file name
is_likely_ha_file_content_first(f) ==
    LET j == IF f.readable
             THEN FirstMatch(ha_content_patterns, read_text(f, ReadLimit)) ELSE 0
        i == FirstMatch(ha_patterns, lower(f.name))
    IN IF j > 0 THEN <<TRUE, "content_match_" \o ha_content_patterns[j].name>>
       ELSE IF i > 0 THEN <<TRUE, "filename_match_" \o ha_patterns[i].name>>
       ELSE <<FALSE, "no_match">>

\* HARecoveryAnalyzer.is_likely_ha_file: <<is_ha, match_type>>
is_likely_ha_file(f) ==
    LET filename == lower(f.name)
        i == FirstMatch(ha_patterns, filename)
    IN IF i > 0 THEN <<TRUE, "filename_match_" \o ha_patterns[i].name>>
       ELSE IF ~f.readable THEN <<FALSE, "read_error">>
       ELSE LET content == read_text(f, ReadLimit)
                j == FirstMatch(ha_content_patterns, content)
            IN IF j > 0
               THEN <<TRUE, "content_match_" \o ha_content_patterns[j].name>>
               ELSE <<FALSE, "no_match">>

\* scan_files: text_extensions
text_extensions == {".txt", ".yaml", ".yml", ".json", ".conf", ".cfg", ".py"}

\* the bucket chosen by substring tests for the names of the filename patterns
Bucket_by_pattern_name(match_type) ==
    IF Contains("configuration", match_type) THEN "ha_configs"
    ELSE IF Contains("automations", match_type) THEN "automations"
    ELSE IF Contains("scenes", match_type) THEN "scenes"
    ELSE IF Contains("secrets", match_type) THEN "secrets"
    ELSE "yaml_files"

\* scan_files: the bucket chosen by the substring tests on match_type
Bucket(match_type) ==
    IF Contains("configuration", match_type) THEN "ha_configs"
    ELSE IF Contains("automation", match_type) THEN "automations"
    ELSE IF Contains("scene", match_type) THEN "scenes"
    ELSE IF Contains("secret", match_type) THEN "secrets"
    ELSE "yaml_files"

\* scan_files: file_info of a positively classified file
FileInfo(f, match_type) ==
    [path |-> PathOf(f), name |-> f.name, size |-> st_size(f),
     match_type |-> match_type, hash |-> get_file_hash(f), subfolder |-> f.dir]

\* the duplicate index with the list of a hash replaced instead of extended
DupAppend_overwrite(dups, h, info) ==
    [k \in DOMAIN dups \cup {h} |-> IF k = h THEN <<info>> ELSE dups[k]]

\* self.results['duplicates'][h].append(info) on a defaultdict(list)
DupAppend(dups, h, info) ==
    IF h \in DOMAIN dups THEN [dups EXCEPT ![h] = Append(@, info)]
    ELSE [k \in DOMAIN dups \cup {h} |-> IF k = h THEN <<info>> ELSE dups[k]]

\* scan_files: what the body of the loop decides for one regular file
\* (the try around stat, the size test, the extension test, the classification)
Outcome(f) ==
    IF ~f.stat_ok THEN [kind |-> "skipped"]
    ELSE IF st_size(f) > LargeFileThreshold
    THEN [kind |-> "large", info |-> [path |-> PathOf(f), size |-> st_size(f)]]
    ELSE IF lower(suffix(f.name)) \in text_extensions \/ suffix(f.name) = ""
    THEN LET m == is_likely_ha_file(f)
         IN IF m[1]
            THEN [kind |-> "ha", info |-> FileInfo(f, m[2]), bucket |-> Bucket(m[2])]
            ELSE IF lower(suffix(f.name)) = ".json"
            THEN [kind |-> "json",
                  info |-> [path |-> PathOf(f), name |-> f.name,
                            size |-> st_size(f), subfolder |-> f.dir]]
            ELSE [kind |-> "skipped"]
    ELSE [kind |-> "skipped"]

\* the updates of self.results with the duplicate index fed whatever the hash is
ScanOne_indexes_every_hash(res, o) ==
    IF o.kind = "large" THEN [res EXCEPT !.large_files = Append(@, o.info)]
    ELSE IF o.kind = "json" THEN [res EXCEPT !.json_files = Append(@, o.info)]
    ELSE IF o.kind = "ha"
    THEN [res EXCEPT ![o.bucket] = Append(@, o.info),
                     !.duplicates = DupAppend(@, o.info.hash, o.info)]
    ELSE res

\* scan_files: the updates of self.results (and of ha_count) for that decision
ScanOne(res, o) ==
    IF o.kind = "large" THEN [res EXCEPT !.large_files = Append(@, o.info)]
    ELSE IF o.kind = "json" THEN [res EXCEPT !.json_files = Append(@, o.info)]
    ELSE IF o.kind = "ha"
    THEN LET r == [res EXCEPT ![o.bucket] = Append(@, o.info)]
         IN IF o.info.hash # None
            THEN [r EXCEPT !.duplicates = DupAppend(@, o.info.hash, o.info)]
            ELSE r
    ELSE res

\* the insertion step of a sort without reverse=True (ascending)
RECURSIVE InsertDesc_ascending(_, _)
InsertDesc_ascending(x, s) ==
    IF Len(s) = 0 THEN <<x>>
    ELSE IF Head(s).size <= x.size
         THEN <<Head(s)>> \o InsertDesc_ascending(x, Tail(s))
    ELSE <<x>> \o s

\* sorted(seq, key=lambda x: x['size'], reverse=True): stable, descending
RECURSIVE InsertDesc(_, _)
InsertDesc(x, s) ==
    IF Len(s) = 0 THEN <<x>>
    ELSE IF Head(s).size >= x.size THEN <<Head(s)>> \o InsertDesc(x, Tail(s))
    ELSE <<x>> \o s

RECURSIVE SortedDesc(_)
SortedDesc(s) ==
    IF Len(s) = 0 THEN <<>>
    ELSE InsertDesc(s[Len(s)], SortedDesc(SubSeq(s, 1, Len(s) - 1)))

\* HARecoveryAnalyzer.generate_report, section by section
generate_report(res) ==
    [summary |-> [configs |-> Len(res.ha_configs),
                  automations |-> Len(res.automations),
                  scenes |-> Len(res.scenes),
                  secrets |-> Len(res.secrets),
                  yaml |-> Len(res.yaml_files),
                  json |-> Len(res.json_files),
                  large |-> Len(res.large_files)],
     duplicates |-> [k \in { h \in DOMAIN res.duplicates :
                               Len(res.duplicates[h]) > 1 } |-> res.duplicates[k]],
     configs |-> SortedDesc(res.ha_configs),
     automations |-> SortedDesc(res.automations)]

\* the lines of one group of the priority list
Labelled(label, s) == [i \in 1..Len(s) |-> label \o ": " \o s[i].path]

\* HARecoveryAnalyzer.save_file_list: the lines written
save_file_list(res) ==
    Labelled("HIGH_PRIORITY", SortedDesc(res.ha_configs))
    \o Labelled("AUTOMATION", SortedDesc(res.automations))
    \o Labelled("SECRETS", SortedDesc(res.secrets))
    \o Labelled("YAML", SortedDesc(res.yaml_files))

-----------------------------------------------------------------------------
(* The trees the classifier is run on.                                     *)

File(d, n, b, p, s, r) ==
    [dir |-> d, name |-> n, bytes |-> b, pad |-> p, stat_ok |-> s, readable |-> r]

Names ==
    {"configuration.yaml", "Automations.YML", "secrets.yaml", "groups.yaml",
     "config_backup.txt", "configuration.yaml.bak", "notes"}

Contents ==
    {"homeassistant:\n  name: Home", "- alias: x", "hello world", "@platform: mqtt"}

\* pad that brings a content to exactly `size` bytes
PadTo(b, size) == size - Len(b)

Files ==
    \* every name with every content, readable, in the first recovery folder
    { File("recup_dir.1", n, b, 0, TRUE, TRUE) : n \in Names, b \in Contents }
    \cup
    { \* more names: a scene file, a name two patterns match, JSON files
      File("recup_dir.1", "scenes.yaml", "hello world", 0, TRUE, TRUE),
      File("recup_dir.1", "scene.yml.secrets.yaml", "hello world", 0, TRUE, TRUE),
      File("recup_dir.1", "data.json", "hello world", 0, TRUE, TRUE),
      File("recup_dir.1", "data.json", "board: ESP32", 0, TRUE, TRUE),
      \* the same name and content in a second recovery folder
      File("recup_dir.2", "configuration.yaml", "homeassistant:\n  name: Home",
           0, TRUE, TRUE),
      \* the same content followed by newlines
      File("recup_dir.2", "config_backup.txt", "homeassistant:\n  name: Home",
           3, TRUE, TRUE),
      \* exactly the threshold, and one byte more
      File("recup_dir.2", "notes", "- alias: x",
           PadTo("- alias: x", LargeFileThreshold), TRUE, TRUE),
      File("recup_dir.2", "secrets.yaml", "hello world",
           PadTo("hello world", LargeFileThreshold + 1), TRUE, TRUE),
      \* files that cannot be opened, and one that cannot be stat'ed
      File("recup_dir.2", "Automations.YML", "- alias: x", 0, TRUE, FALSE),
      File("recup_dir.2", "f0012345.txt", "- alias: x", 0, TRUE, FALSE),
      File("recup_dir.2", "data.json", "board: ESP32", 0, TRUE, FALSE),
      File("recup_dir.2", "groups.yaml", "hello world", 0, FALSE, FALSE) }

\* the decision of the loop body for each file of the trees
Scanned == [f \in Files |-> Outcome(f)]

-----------------------------------------------------------------------------
(* main() of the classifier, step by step.                                 *)

EmptyResults ==
    [ha_configs |-> <<>>, yaml_files |-> <<>>, json_files |-> <<>>,
     text_files |-> <<>>, automations |-> <<>>, scenes |-> <<>>,
     secrets |-> <<>>, duplicates |-> <<>>, large_files |-> <<>>,
     suspicious_files |-> <<>>]

NoReport == [summary |-> <<>>, duplicates |-> <<>>, configs |-> <<>>,
             automations |-> <<>>]

CInit ==
    /\ pc = "args"
    /\ argc \in 1..3
    /\ root \in {"missing", "dir", "file"}
    /\ tree = <<>>
    /\ file_count = 0
    /\ ha_count = 0
    /\ results = EmptyResults
    /\ report = NoReport
    /\ priority_files = <<>>
    /\ written = {}
    /\ exit_code = -1

\* main: more than one argument: usage message, sys.exit(1)
Usage ==
    /\ pc = "args"
    /\ argc > 2
    /\ pc' = "exited"
    /\ exit_code' = 1
    /\ UNCHANGED <<argc, root, tree, file_count, ha_count, results, report,
                   priority_files, written, vvars>>

\* main: the recovery folder does not exist: message, sys.exit(1)
FolderNotFound ==
    /\ pc = "args"
    /\ argc <= 2
    /\ root = "missing"
    /\ pc' = "exited"
    /\ exit_code' = 1
    /\ UNCHANGED <<argc, root, tree, file_count, ha_count, results, report,
                   priority_files, written, vvars>>

\* main: HARecoveryAnalyzer(recovery_folder); scan_files up to its loop.
\* iterdir() on a path that is no directory raises, and nothing catches it.
ScanStart ==
    /\ pc = "args"
    /\ argc <= 2
    /\ root # "missing"
    /\ IF root = "dir"
       THEN pc' = "scan" /\ UNCHANGED exit_code
       ELSE pc' = "crashed" /\ exit_code' = 1
    /\ UNCHANGED <<argc, root, tree, file_count, ha_count, results, report,
                   priority_files, written, vvars>>

\* scan_files: one iteration of the loop, for the next regular file of rglob
ScanFile ==
    /\ pc = "scan"
    /\ Len(tree) < MaxFiles
    /\ \E f \in Files :
          /\ \A i \in 1..Len(tree) : PathOf(tree[i]) # PathOf(f)
          /\ tree' = Append(tree, f)
          /\ file_count' = file_count + 1
          /\ ha_count' = IF Scanned[f].kind = "ha" THEN ha_count + 1 ELSE ha_count
          /\ results' = ScanOne(results, Scanned[f])
    /\ UNCHANGED <<pc, argc, root, report, priority_files, written, exit_code,
                   vvars>>

\* scan_files: after the loop, the statistics are printed;
\* ha_count/file_count raises ZeroDivisionError when no file was seen
ScanFinish ==
    /\ pc = "scan"
    /\ IF file_count = 0
       THEN pc' = "crashed" /\ exit_code' = 1
       ELSE pc' = "report" /\ UNCHANGED exit_code
    /\ UNCHANGED <<argc, root, tree, file_count, ha_count, results, report,
                   priority_files, written, vvars>>

\* main: report = analyzer.generate_report(), written to ha_recovery_report.md
GenerateReport ==
    /\ pc = "report"
    /\ report' = generate_report(results)
    /\ written' = written \cup {"ha_recovery_report.md"}
    /\ pc' = "save"
    /\ UNCHANGED <<argc, root, tree, file_count, ha_count, results,
                   priority_files, exit_code, vvars>>

\* main: analyzer.save_file_list("ha_priority_files.txt"), then main returns
SaveFileList ==
    /\ pc = "save"
    /\ priority_files' = save_file_list(results)
    /\ written' = written \cup {"ha_priority_files.txt"}
    /\ pc' = "exited"
    /\ exit_code' = 0
    /\ UNCHANGED <<argc, root, tree, file_count, ha_count, results, report,
                   vvars>>

CNext ==
    \/ Usage
    \/ FolderNotFound
    \/ ScanStart
    \/ ScanFile
    \/ ScanFinish
    \/ GenerateReport
    \/ SaveFileList

VIdle ==
    /\ vpc = "args"
    /\ vargc = 1
    /\ list_exists = FALSE
    /\ list_lines = <<>>
    /\ file_paths = <<>>
    /\ checked = <<>>
    /\ yaml_files = <<>>
    /\ vindex = 0
    /\ parse_calls = {}
    /\ vresults = <<>>
    /\ vreport = <<>>
    /\ vexit_code = -1

\* the classifier run on any of the trees
ClassifierInit == CInit /\ VIdle

Classifier == ClassifierInit /\ [][CNext]_vars

-----------------------------------------------------------------------------
(* The validator: validate_yaml_files.py                                   *)

\* a stand-in character for a printable Latin-1 letter (U+00E9)
Latin1Char == "~"

\* str.strip()
RECURSIVE lstrip(_)
lstrip(s) ==
    IF Len(s) > 0 /\ InStr(Head(s), Whitespace) THEN lstrip(Tail(s)) ELSE s

RECURSIVE rstrip(_)
rstrip(s) ==
    IF Len(s) > 0 /\ InStr(CharAt(s, Len(s)), Whitespace)
    THEN rstrip(SubSeq(s, 1, Len(s) - 1)) ELSE s

strip(s) == rstrip(lstrip(s))

\* s.count(c)
Count(c, s) == Cardinality({ i \in 1..Len(s) : CharAt(s, i) = c })

\* s.split(sep): the pieces between the occurrences of the character sep
RECURSIVE Split(_, _)
Split(s, sep) ==
    LET i == IndexOf(sep, s)
    IN IF i = 0 THEN <<s>>
       ELSE <<SubSeq(s, 1, i - 1)>> \o Split(SubSeq(s, i + 1, Len(s)), sep)

\* self.ha_sections
ha_sections ==
    {"homeassistant", "automation", "script", "scene", "sensor",
     "binary_sensor", "switch", "light", "climate", "cover",
     "device_tracker", "group", "input_boolean", "input_number",
     "input_select", "input_text", "timer", "counter", "zone"}

\* the character class [\x00-\x08\x0B\x0C\x0E-\x1F\x7F-\xFF]
NonPrintable(c) == c = "\f" \/ c = Latin1Char

IsLetter(c) == InStr(c, LowerChars) \/ InStr(c, UpperChars)

\* the positions at which $ matches without re.MULTILINE
DollarEnds(s) ==
    {Len(s)} \cup (IF Len(s) > 0 /\ CharAt(s, Len(s)) = "\n" THEN {Len(s) - 1} ELSE {})

\* self.corruption_patterns[k].search(content)
corruption_patterns(k, content) ==
    CASE k = 1 -> \E i \in 1..Len(content) : NonPrintable(CharAt(content, i))
      [] k = 2 -> \E e \in DollarEnds(content) : \A i \in 1..e :
                     InStr(CharAt(content, i), DigitChars)
                     \/ InStr(CharAt(content, i), Whitespace)
      [] k = 3 -> \E e \in DollarEnds(content) : \A i \in 1..e :
                     ~IsLetter(CharAt(content, i))

-----------------------------------------------------------------------------
(* yaml.safe_load, on block documents of plain scalars: top-level lines    *)
(* "key: value", "key:", "- item", "- key: value" or plain text, and lines *)
(* indented by two spaces under a "key:" or a "- key: value" line.  Other  *)
(* shapes are reported as unsupported, and no document of the model has    *)
(* one.                                                                    *)

\* the characters a plain scalar of these documents is made of
PlainChars == LowerChars \o UpperChars \o DigitChars \o " :-._/" \o Latin1Char

\* characters the YAML reader refuses (not printable)
ReaderRefuses(c) == c = "\f"

\* number of leading spaces
RECURSIVE Indent(_)
Indent(s) == IF Len(s) > 0 /\ Head(s) = " " THEN 1 + Indent(Tail(s)) ELSE 0

\* "key: value" or "key:"
IsEntry(text) == Contains(": ", text) \/ EndsWith(text, ":")

\* the key of an entry: the text before the first ": " or the final ":"
EntryKey(text) ==
    IF Contains(": ", text)
    THEN LET i == CHOOSE k \in 1..Len(text) :
                     /\ SubSeq(text, k, k + 1) = ": "
                     /\ \A j \in 1..(k - 1) : SubSeq(text, j, j + 1) # ": "
         IN SubSeq(text, 1, i - 1)
    ELSE SubSeq(text, 1, Len(text) - 1)

\* whether the resolver leaves a plain key a str (not int, bool or null)
KeyIsStr(key) ==
    /\ \E i \in 1..Len(key) : ~InStr(CharAt(key, i), DigitChars)
    /\ lower(key) \notin {"yes", "no", "true", "false", "on", "off", "null"}

\* the value of an entry: the text after its key and colon
EntryValue(text) == strip(SubSeq(text, Len(EntryKey(text)) + 2, Len(text)))

\* "key: value" with a key and a plain value
PlainEntry(text) ==
    /\ IsEntry(text)
    /\ EntryKey(text) # ""
    /\ ~IsEntry(EntryValue(text))
    /\ (EntryValue(text) = "" \/ Head(EntryValue(text)) # "-")

\* one line of the document: its form, and for the forms the parser reads on
\* its indentation, its key and whether the key has no value on the line
Line(raw) ==
    LET ind == Indent(raw)
        after == SubSeq(raw, ind + 1, Len(raw))
        text == rstrip(after)
    IN IF after = "" THEN [form |-> "blank"]
       ELSE IF Head(after) = "\t"
       THEN IF ind = 0 /\ strip(after) # "" THEN [form |-> "tab"]
            ELSE [form |-> "unsupported"]
       ELSE IF \E i \in 1..Len(raw) : ~InStr(CharAt(raw, i), PlainChars)
       THEN [form |-> "unsupported"]
       ELSE IF text = "-" \/ (Len(text) >= 2 /\ SubSeq(text, 1, 2) = "- ")
       THEN LET rest == strip(SubSeq(text, 2, Len(text)))
            IN IF Len(rest) > 0 /\ Head(rest) = "-" THEN [form |-> "unsupported"]
               ELSE IF PlainEntry(rest)
               THEN [form |-> "item_map", indent |-> ind,
                     key |-> EntryKey(rest), empty |-> EntryValue(rest) = ""]
               ELSE IF IsEntry(rest) THEN [form |-> "unsupported"]
               ELSE [form |-> "item", indent |-> ind]
       ELSE IF Head(text) = "-" \/ Head(text) = ":" \/ Contains("...", text)
       THEN [form |-> "unsupported"]
       ELSE IF PlainEntry(text)
       THEN [form |-> "entry", indent |-> ind,
             key |-> EntryKey(text), empty |-> EntryValue(text) = ""]
       ELSE IF IsEntry(text) THEN [form |-> "unsupported"]
       ELSE [form |-> "scalar", indent |-> ind]

YamlError(msg) == [kind |-> "error", message |-> msg]
Unsupported == [kind |-> "unsupported"]

\* a key added to a mapping: a repeated key keeps its first position
AddKey(keys, k) ==
    IF \E i \in 1..Len(keys) : keys[i] = k THEN keys ELSE Append(keys, k)

\* the parser after the lines read so far:
\*   kind: "none", "dict", "list", "scalar"; keys: of the root mapping;
\*   items: of the root sequence, each the keys of the item if it is a mapping;
\*   last: what the previous line left open
ParseStart == [kind |-> "none", keys |-> <<>>, items |-> <<>>, last |-> "none"]

\* the parser after one more line
ParseLine(st, ln) ==
    IF ln.form = "blank" THEN st
    ELSE IF ln.form = "tab"
    THEN YamlError("found character '\\t' that cannot start any token")
    ELSE IF ln.form = "unsupported" THEN Unsupported
    ELSE IF ln.indent = 0
    THEN CASE st.kind = "none" ->
                 IF ln.form = "entry"
                 THEN [st EXCEPT !.kind = "dict", !.keys = <<ln.key>>,
                          !.last = IF ln.empty THEN "key_empty" ELSE "key_value"]
                 ELSE IF ln.form = "item_map"
                 THEN [st EXCEPT !.kind = "list",
                          !.items = <<[is_dict |-> TRUE, keys |-> {ln.key}]>>,
                          !.last = "item_map"]
                 ELSE IF ln.form = "item"
                 THEN [st EXCEPT !.kind = "list",
                          !.items = <<[is_dict |-> FALSE, keys |-> {}]>>,
                          !.last = "item"]
                 ELSE [st EXCEPT !.kind = "scalar", !.last = "scalar"]
           [] st.kind = "dict" ->
                 IF ln.form = "entry"
                 THEN [st EXCEPT !.keys = AddKey(@, ln.key),
                          !.last = IF ln.empty THEN "key_empty" ELSE "key_value"]
                 ELSE IF ln.form \in {"item", "item_map"}
                 THEN IF st.last \in {"key_empty", "key_sequence"}
                      THEN [st EXCEPT !.last = "key_sequence"]
                      ELSE IF st.last = "key_value"
                      THEN YamlError("expected <block end>, but found '-'")
                      ELSE Unsupported
                 ELSE IF st.last = "key_value"
                 THEN YamlError("expected <block end>, but found '<scalar>'")
                 ELSE Unsupported
           [] st.kind = "list" ->
                 IF ln.form = "item_map"
                 THEN [st EXCEPT !.items = Append(@, [is_dict |-> TRUE,
                                                      keys |-> {ln.key}]),
                          !.last = "item_map"]
                 ELSE IF ln.form = "item"
                 THEN [st EXCEPT !.items = Append(@, [is_dict |-> FALSE,
                                                      keys |-> {}]),
                          !.last = "item"]
                 ELSE IF ln.form = "entry"
                 THEN YamlError("expected <block end>, but found '?'")
                 ELSE YamlError("expected <block end>, but found '<scalar>'")
           [] st.kind = "scalar" ->
                 IF ln.form = "scalar" THEN st
                 ELSE IF ln.form = "entry"
                 THEN YamlError("mapping values are not allowed here")
                 ELSE Unsupported
    ELSE IF ln.indent = 2 /\ ln.form = "entry"
    THEN IF st.kind = "dict" /\ st.last \in {"key_empty", "key_nested"}
         THEN [st EXCEPT !.last = "key_nested"]
         ELSE IF st.kind = "list" /\ st.last = "item_map"
         THEN [st EXCEPT !.items[Len(st.items)].keys = @ \cup {ln.key}]
         ELSE Unsupported
    ELSE IF ln.indent = 2 /\ ln.form \in {"item", "item_map"}
    THEN IF st.kind = "dict" /\ st.last \in {"key_empty", "key_nested_sequence"}
         THEN [st EXCEPT !.last = "key_nested_sequence"]
         ELSE Unsupported
    ELSE Unsupported

RECURSIVE ParseLines(_, _)
ParseLines(st, lines) ==
    IF Len(lines) = 0 \/ st.kind \in {"error", "unsupported"} THEN st
    ELSE ParseLines(ParseLine(st, Line(Head(lines))), Tail(lines))

\* yaml.safe_load(content): the parsed root, or the YAMLError raised
safe_load(content) ==
    IF \E i \in 1..Len(content) : ReaderRefuses(CharAt(content, i))
    THEN YamlError("unacceptable character #x000c: special characters are not allowed")
    ELSE LET st == ParseLines(ParseStart, Split(content, "\n"))
         IN IF st.kind = "dict"
            THEN [kind |-> "dict",
                  keys |-> [i \in 1..Len(st.keys) |->
                               [text |-> st.keys[i], is_str |-> KeyIsStr(st.keys[i])]]]
            ELSE IF st.kind = "list" THEN [kind |-> "list", items |-> st.items]
            ELSE st

-----------------------------------------------------------------------------
(* HAYAMLValidator.validate_file                                           *)

\* the value of result['error'] while no error is recorded (None)
NoError == "None"

\* validate_file: isinstance(key, str) and key.lower() in self.ha_sections
IsSection_case_sensitive(k) == k.is_str /\ k.text \in ha_sections

IsSection(k) == k.is_str /\ lower(k.text) \in ha_sections

\* validate_file: any(isinstance(item, dict) and 'alias' in item for item in yaml_data)
HasAlias_first_item(items) ==
    Len(items) > 0 /\ items[1].is_dict /\ "alias" \in items[1].keys

HasAlias(items) ==
    \E i \in 1..Len(items) : items[i].is_dict /\ "alias" \in items[i].keys

\* validate_file: some pattern of self.corruption_patterns is found in content
Suspicious_first_pattern(content) == corruption_patterns(1, content)

Suspicious(content) == \E k \in 1..3 : corruption_patterns(k, content)

\* validate_file: len(content.strip()) < 10
TooSmall_untrimmed(content) == Len(content) < 10

TooSmall(content) == Len(strip(content)) < 10

\* validate_file: the result after yaml.safe_load returned y or raised it
AfterParse(r, y) ==
    CASE y.kind = "error" ->
            [r EXCEPT !.error = "YAML parsing error: " \o y.message,
                      !.warnings =
                         IF Contains("found character", y.message)
                         THEN Append(@, "Invalid characters - may be partially corrupted")
                         ELSE IF Contains("expected", y.message)
                         THEN Append(@, "Syntax error - check indentation and structure")
                         ELSE @]
      [] y.kind = "dict" ->
            LET found == SelectSeq(y.keys, IsSection)
                found_sections == [i \in 1..Len(found) |-> found[i].text]
            IN [r EXCEPT !.valid = TRUE,
                         !.ha_sections = found_sections,
                         !.warnings = IF Len(found_sections) = 0
                                      THEN Append(@, "No recognized HA sections found")
                                      ELSE @]
      [] y.kind = "list" ->
            IF HasAlias(y.items)
            THEN [r EXCEPT !.valid = TRUE, !.ha_sections = <<"automation_list">>]
            ELSE [r EXCEPT !.valid = TRUE,
                           !.warnings =
                              Append(@, "List format - check if valid HA structure")]
      [] y.kind \in {"scalar", "none"} -> [r EXCEPT !.valid = TRUE]

\* validate_file on the file fl = [path, bytes, readable]:
\* the result returned, and whether yaml.safe_load was called
validate_file(fl) ==
    LET result == [file |-> fl.path, valid |-> FALSE, error |-> NoError,
                   warnings |-> <<>>, size |-> 0, lines |-> 0,
                   ha_sections |-> <<>>, likely_corrupted |-> FALSE]
    IN IF ~fl.readable
       THEN [result |-> [result EXCEPT !.error = "File reading error: " \o fl.path],
             parse_called |-> FALSE]
       ELSE LET content == Decode(fl.bytes)
                r1 == [result EXCEPT !.size = Len(content),
                                     !.lines = Count("\n", content) + 1]
                r2 == IF Suspicious(content)
                      THEN [r1 EXCEPT !.likely_corrupted = TRUE,
                                      !.warnings = Append(@,
                                         "Contains suspicious patterns - may be corrupted")]
                      ELSE r1
            IN IF TooSmall(content)
               THEN [result |-> [r2 EXCEPT !.warnings =
                                    Append(@, "File too small to be meaningful")],
                     parse_called |-> FALSE]
               ELSE [result |-> AfterParse(r2, safe_load(content)),
                     parse_called |-> TRUE]

\* sorted(ha_files, key=lambda x: len(x['ha_sections']), reverse=True)
RECURSIVE InsertBySections(_, _)
InsertBySections(x, s) ==
    IF Len(s) = 0 THEN <<x>>
    ELSE IF Len(Head(s).ha_sections) >= Len(x.ha_sections)
         THEN <<Head(s)>> \o InsertBySections(x, Tail(s))
    ELSE <<x>> \o s

RECURSIVE SortedBySections(_)
SortedBySections(s) ==
    IF Len(s) = 0 THEN <<>>
    ELSE InsertBySections(s[Len(s)], SortedBySections(SubSeq(s, 1, Len(s) - 1)))

\* generate_report: not f['ha_sections'] or f['warnings'], on a valid result
NeedsAttention_unrecognized_only(f) == Len(f.ha_sections) = 0

NeedsAttention(f) == Len(f.ha_sections) = 0 \/ Len(f.warnings) > 0

\* HAYAMLValidator.generate_report, section by section
validator_report(res) ==
    LET ha_files == SelectSeq(res.valid, LAMBDA f : Len(f.ha_sections) > 0)
        problem_files ==
            SelectSeq(res.valid, NeedsAttention) \o res.invalid
    IN [total_count |-> Len(res.valid) + Len(res.invalid),
        valid_count |-> Len(res.valid),
        invalid_count |-> Len(res.invalid),
        warnings_count |-> Len(res.warnings),
        ha_files |-> SortedBySections(ha_files),
        problem_files |-> SortedDesc(problem_files)]

\* main: the path tested for a line of the list ("Remove priority prefix")
FilterPath(file_path) ==
    IF InStr(":", file_path)
    THEN strip(SubSeq(file_path, IndexOf(":", file_path) + 1, Len(file_path)))
    ELSE file_path

\* main: file_path.lower().endswith(('.yaml', '.yml', '.txt'))
HasListedExtension(file_path) ==
    \E e \in {".yaml", ".yml", ".txt"} : EndsWith(lower(file_path), e)

-----------------------------------------------------------------------------
(* The files and file lists the validator is run on.                       *)

VFile(p, b, r) == [path |-> p, bytes |-> b, readable |-> r]

VFiles ==
    { VFile("/a/configuration.yaml", "homeassistant:\n  name: Home", TRUE),
      VFile("C:\\rec\\configuration.yaml", "homeassistant:\n  name: Home", TRUE),
      VFile("/rec/12:30/secrets.yaml", "name: Home\ncolor: blue", TRUE),
      VFile("/a/NOTES.TXT", "hello world", TRUE),
      VFile("/a/data.json", "sensor: 1\nlight: 2", TRUE),
      VFile("/rec/f01.txt", "zone: 1", TRUE),
      VFile("/rec/f02.txt", "Sensor:\n  platform: mqtt", TRUE),
      VFile("/rec/f03.txt", "sensor: 1\nlight: 2\ncolor: 3", TRUE),
      VFile("/rec/f04.txt", "ZONE:\n  name: Home", TRUE),
      VFile("/rec/f05.txt", "- alias: x", TRUE),
      VFile("/rec/f06.txt", "- alias:", TRUE),
      VFile("/rec/f07.txt", "- name: a\n- alias: wake up", TRUE),
      VFile("/rec/f08.txt", "- a\n- b\n- c\n- d", TRUE),
      VFile("/rec/f09.txt", "- scene: a\n  alias: b\n- c", TRUE),
      VFile("/rec/f10.txt", "", TRUE),
      VFile("/rec/f11.txt", " \n\n12\n\n", TRUE),
      VFile("/rec/f12.txt", "12345 67890 12345", TRUE),
      VFile("/rec/f13.txt", "1.5 - 2.5 / 3.0", TRUE),
      VFile("/rec/f14.txt", "\fbinary garbage", TRUE),
      VFile("/rec/f15.txt", "sensor:\n  name: caf" \o Latin1Char, TRUE),
      VFile("/rec/f16.txt", "key: 1\n\tother: 2", TRUE),
      VFile("/rec/f17.txt", "a: 1\n- b\n- c", TRUE),
      VFile("/rec/f18.txt", "hello\nworld: 1", TRUE),
      VFile("/rec/f19.txt", "@@sensor: 1\nzone: 2", TRUE),
      VFile("/rec/f20.txt", "automation:\n  - alias: x", TRUE),
      VFile("/rec/f21.txt", "12: sensor\non: light x", TRUE),
      VFile("/rec/f22.yml", "light: 1\n\n", TRUE),
      VFile("/rec/f23.yml", "homeassistant:\n  name: Home", FALSE) }

\* os.path.exists(path)
Exists(path) == \E fl \in VFiles : fl.path = path

FileAt(path) == CHOOSE fl \in VFiles : fl.path = path

\* the lines a file list is made of
ListLines ==
    { fl.path : fl \in VFiles }
    \cup
    { "HIGH_PRIORITY: /a/configuration.yaml",
      "HIGH_PRIORITY: C:\\rec\\configuration.yaml",
      "YAML: /rec/f03.txt\n",
      "  /rec/f05.txt  \n",
      "   \n",
      "/a/missing.yaml",
      "SECRETS: /a/missing.yaml" }

\* validate_file for each file of the model
Validated == [fl \in VFiles |-> validate_file(fl)]

FileOfPath == [path \in { fl.path : fl \in VFiles } |-> FileAt(path)]

\* line.strip() for each line of the model
Stripped == [l \in ListLines |-> strip(l)]

\* main: what the filter loop finds for each entry of file_paths
Filtered ==
    [line \in { Stripped[l] : l \in ListLines } |->
        LET file_path == FilterPath(line)
        IN [path |-> file_path,
            accepted |-> HasListedExtension(file_path) /\ Exists(file_path)]]

-----------------------------------------------------------------------------
(* main() of the validator, step by step.                                  *)

SeqsUpTo(S, n) == UNION { [1..k -> S] : k \in 0..n }

EmptyVResults == [valid |-> <<>>, invalid |-> <<>>, warnings |-> <<>>, stats |-> <<>>]

NoVReport == [total_count |-> 0, valid_count |-> 0, invalid_count |-> 0,
              warnings_count |-> 0, ha_files |-> <<>>, problem_files |-> <<>>]

VInit ==
    /\ vpc = "args"
    /\ vargc \in 1..3
    /\ list_exists \in BOOLEAN
    /\ list_lines \in SeqsUpTo(ListLines, MaxLines)
    /\ (vargc # 2 \/ ~list_exists) => list_lines = <<>>
    /\ file_paths = <<>>
    /\ checked = <<>>
    /\ yaml_files = <<>>
    /\ vindex = 0
    /\ parse_calls = {}
    /\ vresults = EmptyVResults
    /\ vreport = NoVReport
    /\ vexit_code = -1

\* main: len(sys.argv) != 2: usage message, sys.exit(1)
VUsage ==
    /\ vpc = "args"
    /\ vargc # 2
    /\ vpc' = "exited"
    /\ vexit_code' = 1
    /\ UNCHANGED <<vargc, list_exists, list_lines, file_paths, checked,
                   yaml_files, vindex, parse_calls, vresults, vreport, cvars>>

\* main: the file list does not exist: message, sys.exit(1)
VListNotFound ==
    /\ vpc = "args"
    /\ vargc = 2
    /\ ~list_exists
    /\ vpc' = "exited"
    /\ vexit_code' = 1
    /\ UNCHANGED <<vargc, list_exists, list_lines, file_paths, checked,
                   yaml_files, vindex, parse_calls, vresults, vreport, cvars>>

\* main: file_paths = [line.strip() for line in f if line.strip()]
VReadList ==
    /\ vpc = "args"
    /\ vargc = 2
    /\ list_exists
    /\ file_paths' = LET kept == SelectSeq(list_lines, LAMBDA l : Stripped[l] # "")
                     IN [i \in 1..Len(kept) |-> Stripped[kept[i]]]
    /\ vpc' = "filter"
    /\ UNCHANGED <<vargc, list_exists, list_lines, checked, yaml_files, vindex,
                   parse_calls, vresults, vreport, vexit_code, cvars>>

\* main: one iteration of the filter loop
VFilterLine ==
    /\ vpc = "filter"
    /\ Len(checked) < Len(file_paths)
    /\ LET line == file_paths[Len(checked) + 1]
           file_path == Filtered[line].path
           accepted == Filtered[line].accepted
       IN /\ checked' = Append(checked, [line |-> line, path |-> file_path,
                                         accepted |-> accepted])
          /\ yaml_files' = IF accepted THEN Append(yaml_files, file_path)
                           ELSE yaml_files
    /\ UNCHANGED <<vpc, vargc, list_exists, list_lines, file_paths, vindex,
                   parse_calls, vresults, vreport, vexit_code, cvars>>

\* main: after the filter loop; no file left: message, sys.exit(1)
VFilterDone ==
    /\ vpc = "filter"
    /\ Len(checked) = Len(file_paths)
    /\ IF yaml_files = <<>>
       THEN vpc' = "exited" /\ vexit_code' = 1
       ELSE vpc' = "validate" /\ UNCHANGED vexit_code
    /\ UNCHANGED <<vargc, list_exists, list_lines, file_paths, checked,
                   yaml_files, vindex, parse_calls, vresults, vreport, cvars>>

\* validate_files: one iteration of the loop
VValidateFile ==
    /\ vpc = "validate"
    /\ vindex < Len(yaml_files)
    /\ LET v == Validated[FileOfPath[yaml_files[vindex + 1]]]
           result == v.result
       IN /\ vresults' =
                [vresults EXCEPT
                    !.valid = IF result.valid THEN Append(@, result) ELSE @,
                    !.invalid = IF result.valid THEN @ ELSE Append(@, result),
                    !.warnings = @ \o [i \in 1..Len(result.warnings) |->
                                          [file |-> result.file,
                                           warning |-> result.warnings[i]]]]
          /\ parse_calls' = IF v.parse_called
                            THEN parse_calls \cup {result.file} ELSE parse_calls
    /\ vindex' = vindex + 1
    /\ UNCHANGED <<vpc, vargc, list_exists, list_lines, file_paths, checked,
                   yaml_files, vreport, vexit_code, cvars>>

\* main: report = validator.generate_report(), written, main returns
VGenerateReport ==
    /\ vpc = "validate"
    /\ vindex = Len(yaml_files)
    /\ vreport' = validator_report(vresults)
    /\ vpc' = "exited"
    /\ vexit_code' = 0
    /\ UNCHANGED <<vargc, list_exists, list_lines, file_paths, checked,
                   yaml_files, vindex, parse_calls, vresults, cvars>>

VNext ==
    \/ VUsage
    \/ VListNotFound
    \/ VReadList
    \/ VFilterLine
    \/ VFilterDone
    \/ VValidateFile
    \/ VGenerateReport

CIdle ==
    /\ pc = "args"
    /\ argc = 1
    /\ root = "missing"
    /\ tree = <<>>
    /\ file_count = 0
    /\ ha_count = 0
    /\ results = EmptyResults
    /\ report = NoReport
    /\ priority_files = <<>>
    /\ written = {}
    /\ exit_code = -1

\* the validator run on any of the file lists
ValidatorInit == VInit /\ CIdle

Validator == ValidatorInit /\ [][VNext]_vars

\* no document of the model is outside the documents safe_load is modelled on
AllDocumentsSupported ==
    \A fl \in VFiles :
        fl.readable =>
            safe_load(Decode(fl.bytes)).kind # "unsupported"

-----------------------------------------------------------------------------
(* Properties of the classifier.                                           *)

BucketNames == {"ha_configs", "automations", "scenes", "secrets", "yaml_files"}

\* the records of bucket b that describe the file at path p
RecordsOf(b, p) == { k \in 1..Len(results[b]) : results[b][k].path = p }

\* the file at path p has a record in bucket b
InBucket(b, p) == RecordsOf(b, p) # {}

Classified(p) == \E b \in BucketNames : InBucket(b, p)

\* the record of a classified file
RecordAt(p) ==
    LET b == CHOOSE c \in BucketNames : InBucket(c, p)
    IN results[b][CHOOSE k \in RecordsOf(b, p) : TRUE]

\* the scan loop has ended and its results stand
ScanEnded == pc \in {"report", "save", "exited"} /\ root = "dir" /\ argc <= 2

\* the file reaches the classification step of the loop body
ReachesClassification(f) ==
    /\ f.stat_ok
    /\ st_size(f) <= LargeFileThreshold
    /\ (lower(suffix(f.name)) \in text_extensions \/ suffix(f.name) = "")

\* the bucket that holds the files of a filename pattern
BucketOfPattern(name) ==
    CASE name = "configuration" -> "ha_configs"
      [] name = "automations" -> "automations"
      [] name = "scenes" -> "scenes"
      [] name = "secrets" -> "secrets"
      [] OTHER -> "yaml_files"

\* the filename patterns that match the base name of each file of the trees
MatchingPatterns ==
    [f \in Files |->
        { k \in 1..Len(ha_patterns) : re_search(ha_patterns[k].re, lower(f.name)) }]

NameMatches(f, k) == k \in MatchingPatterns[f]

\* the files of the trees that reach the classification step
Reaching == { f \in Files : ReachesClassification(f) }

\* C1 as stated: every scanned file whose base name matches a filename
\* pattern is classified under that pattern's category, with match type
\* filename_match_<category>, whatever its content is.
C1_Original ==
    \A i \in 1..Len(tree) : \A k \in 1..Len(ha_patterns) :
        NameMatches(tree[i], k) =>
            /\ InBucket(BucketOfPattern(ha_patterns[k].name), PathOf(tree[i]))
            /\ RecordAt(PathOf(tree[i])).match_type
                  = "filename_match_" \o ha_patterns[k].name

\* C1 amended: every scanned file that reaches the classification step (stat
\* succeeds, at most 10 MiB, suffix in the allow-list or empty) and whose base
\* name matches a filename pattern has exactly one record, in the bucket of the
\* first matching pattern of the table, with match type
\* filename_match_<that pattern>, whatever its content is.
C1_FilenameFirst ==
    \A i \in 1..Len(tree) : \A k \in 1..Len(ha_patterns) :
        LET f == tree[i] IN
        ( /\ f \in Reaching
          /\ NameMatches(f, k)
          /\ \A j \in 1..(k - 1) : ~NameMatches(f, j) ) =>
            /\ \A b \in BucketNames :
                  Cardinality(RecordsOf(b, PathOf(f)))
                     = IF b = BucketOfPattern(ha_patterns[k].name) THEN 1 ELSE 0
            /\ RecordAt(PathOf(f)).match_type
                  = "filename_match_" \o ha_patterns[k].name
            /\ ~Contains("content_match", RecordAt(PathOf(f)).match_type)

\* C1 witness: a file named configuration.yaml whose content carries the
\* automation signature has been filed as a configuration by its name.
C1_Witness ==
    \E i \in 1..Len(tree) :
        /\ tree[i].name = "configuration.yaml"
        /\ tree[i].bytes = "- alias: x"
        /\ InBucket("ha_configs", PathOf(tree[i]))
        /\ RecordAt(PathOf(tree[i])).match_type = "filename_match_configuration"

SameContent(f, g) == f.bytes = g.bytes /\ f.pad = g.pad

\* both files are in the duplicate group keyed by h
Grouped(h, p, q) ==
    /\ h \in DOMAIN results.duplicates
    /\ \E a, b \in 1..Len(results.duplicates[h]) :
          /\ results.duplicates[h][a].path = p
          /\ results.duplicates[h][b].path = q

\* the duplicates section lists no group with fewer than two members
ReportListsOnlyGroups ==
    pc \in {"save", "exited"} /\ exit_code # 1 =>
        \A h \in DOMAIN report.duplicates : Len(report.duplicates[h]) >= 2

\* C2 as stated: after the scan every pair of distinct files of the tree with
\* identical byte content is in the same duplicate group, keyed by one hash,
\* and the report lists only groups of at least two.
C2_Original ==
    /\ ScanEnded =>
          \A i, j \in 1..Len(tree) :
              i # j /\ SameContent(tree[i], tree[j]) =>
                  \E h \in DOMAIN results.duplicates :
                      Grouped(h, PathOf(tree[i]), PathOf(tree[j]))
    /\ ReportListsOnlyGroups

\* C2 amended: after the scan every pair of distinct files with identical byte
\* content that were both positively classified and both hashed is in the same
\* duplicate group, keyed by their common hash; the duplicates section of the
\* report lists exactly the groups with at least two members.
C2_Duplicates ==
    /\ ScanEnded =>
          \A i, j \in 1..Len(tree) :
              LET p == PathOf(tree[i])
                  q == PathOf(tree[j]) IN
              ( /\ i # j
                /\ SameContent(tree[i], tree[j])
                /\ Classified(p) /\ Classified(q)
                /\ RecordAt(p).hash # None /\ RecordAt(q).hash # None ) =>
                    /\ RecordAt(p).hash = RecordAt(q).hash
                    /\ Grouped(RecordAt(p).hash, p, q)
    /\ ReportListsOnlyGroups
    /\ pc \in {"save", "exited"} /\ exit_code # 1 =>
          \A h \in DOMAIN results.duplicates :
              Len(results.duplicates[h]) >= 2 =>
                  /\ h \in DOMAIN report.duplicates
                  /\ report.duplicates[h] = results.duplicates[h]

\* C2 witness: two files with the same content were grouped and reported,
\* while another group of one was left out of the report.
C2_Witness ==
    /\ pc = "exited" /\ exit_code = 0
    /\ \E i, j \in 1..Len(tree) :
          /\ i # j
          /\ SameContent(tree[i], tree[j])
          /\ \E h \in DOMAIN report.duplicates :
                Grouped(h, PathOf(tree[i]), PathOf(tree[j]))

\* the scenario of C3: configuration.yaml starting with homeassistant: and a
\* readable config_backup.txt with the same bytes, both at most 10 MiB
C3_Scenario(f, g) ==
    /\ f.name = "configuration.yaml"
    /\ g.name = "config_backup.txt"
    /\ SameContent(f, g)
    /\ Len(f.bytes) >= 14 /\ SubSeq(f.bytes, 1, 14) = "homeassistant:"
    /\ f.stat_ok /\ g.stat_ok /\ f.readable /\ g.readable
    /\ st_size(f) <= LargeFileThreshold

\* C3 as stated: both files are put in the category configuration and form
\* one duplicate set of size 2 under one shared hash.
C3_Original ==
    ScanEnded =>
        \A i, j \in 1..Len(tree) :
            C3_Scenario(tree[i], tree[j]) =>
                /\ InBucket("ha_configs", PathOf(tree[i]))
                /\ InBucket("ha_configs", PathOf(tree[j]))
                /\ \E h \in DOMAIN results.duplicates :
                      Grouped(h, PathOf(tree[i]), PathOf(tree[j]))

\* C9 as stated, for an existing root directory: the run completes the scan,
\* writes ha_recovery_report.md and ha_priority_files.txt and exits with code 0
\* without an uncaught exception, also when the tree holds no regular file.
C9_Original ==
    (pc \in {"exited", "crashed"} /\ root = "dir" /\ argc <= 2) =>
        /\ pc = "exited"
        /\ exit_code = 0
        /\ written = {"ha_recovery_report.md", "ha_priority_files.txt"}

\* the label of a written line
LabelOf(line) ==
    CHOOSE l \in {"HIGH_PRIORITY", "AUTOMATION", "SECRETS", "YAML"} :
        Len(line) >= Len(l) + 2 /\ SubSeq(line, 1, Len(l) + 2) = l \o ": "

\* the path of a written line
PathOfLine(line) == SubSeq(line, Len(LabelOf(line)) + 3, Len(line))

Rank(label) ==
    CASE label = "HIGH_PRIORITY" -> 1
      [] label = "AUTOMATION" -> 2
      [] label = "SECRETS" -> 3
      [] label = "YAML" -> 4

LabelOfBucket(b) ==
    CASE b = "ha_configs" -> "HIGH_PRIORITY"
      [] b = "automations" -> "AUTOMATION"
      [] b = "secrets" -> "SECRETS"
      [] b = "yaml_files" -> "YAML"

\* C10: the priority list holds one line per configuration, automation, secret
\* and generic record and no other line; configuration lines (HIGH_PRIORITY)
\* come first, then AUTOMATION, then SECRETS, then YAML, and within one label
\* the file sizes never increase from one line to the next.
C10_PriorityOrder ==
    (pc = "exited" /\ exit_code = 0) =>
        /\ \A b \in {"ha_configs", "automations", "secrets", "yaml_files"} :
              \A k \in 1..Len(results[b]) :
                  Cardinality({ n \in 1..Len(priority_files) :
                      priority_files[n]
                         = LabelOfBucket(b) \o ": " \o results[b][k].path }) = 1
        /\ Len(priority_files)
              = Len(results.ha_configs) + Len(results.automations)
                + Len(results.secrets) + Len(results.yaml_files)
        /\ \A m, n \in 1..Len(priority_files) :
              m < n =>
                  LET a == priority_files[m]
                      b == priority_files[n] IN
                  /\ Rank(LabelOf(a)) <= Rank(LabelOf(b))
                  /\ LabelOf(a) = LabelOf(b) =>
                        RecordAt(PathOfLine(a)).size >= RecordAt(PathOfLine(b)).size

\* C10 witness: a list was written in which the larger file of a bucket comes
\* first although the scan met the smaller one first.
C10_Witness ==
    /\ pc = "exited" /\ exit_code = 0
    /\ \E b \in {"ha_configs", "automations", "secrets", "yaml_files"} :
          /\ Len(results[b]) >= 2
          /\ results[b][1].size < results[b][2].size
          /\ priority_files[1] = LabelOfBucket(b) \o ": " \o results[b][2].path
          /\ priority_files[2] = LabelOfBucket(b) \o ": " \o results[b][1].path

\* the file cannot be opened, or cannot be stat'ed
Failing(f) == ~f.readable \/ ~f.stat_ok

FailingPaths == { PathOf(tree[i]) : i \in { k \in 1..Len(tree) : Failing(tree[k]) } }

ListNames == BucketNames \cup {"json_files", "large_files"}

\* the paths recorded in the duplicate index
IndexedPaths(res) ==
    UNION { { res.duplicates[h][k].path : k \in 1..Len(res.duplicates[h]) } :
            h \in DOMAIN res.duplicates }

\* the lists of res and its duplicate groups without the records of paths
WithoutPaths(res, paths) ==
    LET keep(r) == r.path \notin paths
        groups == [h \in DOMAIN res.duplicates |->
                      SelectSeq(res.duplicates[h], keep)]
    IN [lists |-> [b \in ListNames |-> SelectSeq(res[b], keep)],
        duplicates |-> [h \in { k \in DOMAIN groups : Len(groups[k]) > 0 } |->
                           groups[h]]]

\* the results of the loop over the files of s alone
RECURSIVE ScanAll(_)
ScanAll(s) ==
    IF Len(s) = 0 THEN EmptyResults
    ELSE ScanOne(ScanAll(SubSeq(s, 1, Len(s) - 1)), Scanned[s[Len(s)]])

\* C12: a file that cannot be opened and whose name matches no filename
\* pattern has no record in any of the five buckets nor in the duplicate
\* index; a file that cannot be opened and whose name matches a pattern has
\* one record, in its bucket, with hash None, and none in the duplicate
\* index; the loop goes on after either: every file of the tree is counted,
\* the records of the other files are those of a scan of these files alone,
\* and the run crashes only on a tree without files.
C12_FailuresContained ==
    /\ \A i \in 1..Len(tree) :
          LET f == tree[i]
              p == PathOf(f)
          IN f \in Reaching /\ ~f.readable =>
                /\ p \notin IndexedPaths(results)
                /\ IF MatchingPatterns[f] = {}
                   THEN ~Classified(p)
                   ELSE /\ Cardinality({ b \in BucketNames : InBucket(b, p) }) = 1
                        /\ \A b \in BucketNames :
                              /\ Cardinality(RecordsOf(b, p)) <= 1
                              /\ \A k \in RecordsOf(b, p) :
                                    results[b][k].hash = None
    /\ file_count = Len(tree)
    /\ pc = "crashed" => tree = <<>>
    /\ WithoutPaths(results, FailingPaths)
          = WithoutPaths(ScanAll(SelectSeq(tree, LAMBDA f : ~Failing(f))), {})

\* a scan has ended, and the report and the list are written, on a tree in
\* which a file that cannot be opened and matches no filename pattern comes
\* before a file that cannot be opened and is classified by its name, which
\* is in its bucket with hash None
C12_Witness ==
    /\ pc = "exited" /\ exit_code = 0
    /\ \E i, j \in 1..Len(tree) :
          /\ i < j
          /\ tree[i] \in Reaching /\ ~tree[i].readable
          /\ MatchingPatterns[tree[i]] = {}
          /\ tree[j] \in Reaching /\ ~tree[j].readable
          /\ Classified(PathOf(tree[j]))
          /\ RecordAt(PathOf(tree[j])).hash = None

\* the words looked for in match_type, in the order of the tests, and the
\* bucket of each
BucketWords ==
    << [word |-> "configuration", bucket |-> "ha_configs"],
       [word |-> "automation", bucket |-> "automations"],
       [word |-> "scene", bucket |-> "scenes"],
       [word |-> "secret", bucket |-> "secrets"] >>

\* the match types is_likely_ha_file can return for a positive answer
MatchTypes ==
    { "filename_match_" \o ha_patterns[k].name : k \in 1..Len(ha_patterns) }
    \cup
    { "content_match_" \o ha_content_patterns[k].name :
         k \in 1..Len(ha_content_patterns) }

\* for each match type, the bucket of the first word it contains, and the
\* generic bucket when it contains none
BucketOfType ==
    [mt \in MatchTypes |->
        LET found == { i \in 1..Len(BucketWords) : Contains(BucketWords[i].word, mt) }
        IN IF found = {} THEN "yaml_files"
           ELSE BucketWords[CHOOSE i \in found : \A j \in found : i <= j].bucket]

\* C13: every file of the tree that is_likely_ha_file answered yes for has
\* its record in the bucket of the first of the words configuration,
\* automation, scene, secret that its match type contains, the generic
\* bucket when it contains none; the five buckets hold as many records as
\* there are such files, so each has one record, in one bucket, and a file
\* over 10 MiB or not classified has none.
C13_OneBucket ==
    /\ \A i \in 1..Len(tree) :
          LET f == tree[i]
              o == Scanned[f]
          IN /\ o.kind = "ha" =>
                  /\ o.info.match_type \in MatchTypes
                  /\ \E k \in 1..Len(results[BucketOfType[o.info.match_type]]) :
                        results[BucketOfType[o.info.match_type]][k] = o.info
             /\ (f.stat_ok /\ st_size(f) > LargeFileThreshold) => o.kind = "large"
             /\ o.kind # "ha" => ~Classified(PathOf(f))
    /\ Len(results.ha_configs) + Len(results.automations) + Len(results.scenes)
          + Len(results.secrets) + Len(results.yaml_files)
       = Cardinality({ i \in 1..Len(tree) : Scanned[tree[i]].kind = "ha" })

\* a scan has ended on a tree with a file classified by its content as an
\* automation, in the automation bucket only, and a file over 10 MiB whose
\* name matches a filename pattern, in no bucket
C13_Witness ==
    /\ ScanEnded
    /\ \E i, j \in 1..Len(tree) :
          /\ Scanned[tree[i]].kind = "ha"
          /\ Scanned[tree[i]].info.match_type = "content_match_automation"
          /\ InBucket("automations", PathOf(tree[i]))
          /\ ~InBucket("yaml_files", PathOf(tree[i]))
          /\ st_size(tree[j]) > LargeFileThreshold
          /\ MatchingPatterns[tree[j]] # {}
          /\ ~Classified(PathOf(tree[j]))

-----------------------------------------------------------------------------
(* Properties of the validator.                                            *)

RangeOf(s) == { s[i] : i \in 1..Len(s) }

\* what the properties below need to know of each file: whether it can be
\* read, the length of its content and of its trimmed content, whether a
\* corruption pattern is found in it, the top-level keys of the vocabulary
\* when the document is a mapping, and, when it is a sequence, whether an
\* element is a mapping with the key "alias" and whether the first one is
Documents ==
    [fl \in VFiles |->
        LET content == Decode(fl.bytes)
            y == safe_load(content)
        IN [readable |-> fl.readable,
            length |-> Len(content),
            trimmed |-> Len(strip(content)),
            pattern_found |-> \E k \in 1..3 : corruption_patterns(k, content),
            section_keys |->
                IF y.kind = "dict"
                THEN { k.text : k \in { x \in RangeOf(y.keys) :
                                    x.is_str /\ lower(x.text) \in ha_sections } }
                ELSE {},
            alias_list |->
                y.kind = "list"
                /\ \E it \in RangeOf(y.items) : it.is_dict /\ "alias" \in it.keys,
            alias_first |->
                y.kind = "list" /\ Len(y.items) > 0
                /\ y.items[1].is_dict /\ "alias" \in y.items[1].keys]]

Doc(path) == Documents[FileOfPath[path]]

\* the results validate_files has recorded for the file at path
ResultsOf(path) ==
    { r \in RangeOf(vresults.valid) \cup RangeOf(vresults.invalid) : r.file = path }

\* the paths validate_files has gone through
ValidatedPaths == { yaml_files[i] : i \in 1..vindex }

SuspiciousWarning == "Contains suspicious patterns - may be corrupted"
TooSmallWarning == "File too small to be meaningful"
ListShapeWarning == "List format - check if valid HA structure"

\* C4: a readable file whose trimmed content has fewer than 10 characters
\* (the empty file included) gets a result with valid = false, the
\* "too small" warning and no error, and the result is in the invalid list
\* and not in the valid list.
C4_TooSmall ==
    \A p \in ValidatedPaths :
        Doc(p).readable /\ Doc(p).trimmed < 10 =>
            /\ \E r \in RangeOf(vresults.invalid) : r.file = p
            /\ \A r \in RangeOf(vresults.valid) : r.file # p
            /\ \A r \in ResultsOf(p) :
                  /\ ~r.valid
                  /\ TooSmallWarning \in RangeOf(r.warnings)
                  /\ r.error = NoError

\* an empty file and a short non-empty file have been validated, and the
\* run has ended with both in the invalid list
C4_Witness ==
    /\ vpc = "exited"
    /\ vexit_code = 0
    /\ Len(vresults.invalid) = 2
    /\ \E p, q \in ValidatedPaths :
          /\ Doc(p).readable /\ Doc(p).length = 0
          /\ Doc(q).readable /\ Doc(q).trimmed \in 1..9

\* C5 as stated: every mapping document with a top-level key that is,
\* case-insensitively, a recognized section is reported valid with that key
\* in ha_sections.
C5_Original ==
    \A p \in ValidatedPaths :
        Doc(p).readable =>
            \A k \in Doc(p).section_keys : \A r \in ResultsOf(p) :
                r.valid /\ k \in RangeOf(r.ha_sections)

\* C5: every mapping document whose trimmed content has at least 10
\* characters and that has a top-level key that is, case-insensitively, a
\* recognized section is reported valid with that key in ha_sections; a
\* shorter document is reported too small, not valid, with no section.
C5_Sections ==
    \A p \in ValidatedPaths :
        Doc(p).readable =>
            \A k \in Doc(p).section_keys : \A r \in ResultsOf(p) :
                IF Doc(p).trimmed >= 10
                THEN r.valid /\ k \in RangeOf(r.ha_sections)
                ELSE ~r.valid /\ r.ha_sections = <<>>

\* a mapping whose section key is not in lower case has been validated and
\* is reported valid with the key as written
C5_Witness ==
    \E p \in ValidatedPaths : \E k \in Doc(p).section_keys :
        /\ lower(k) # k
        /\ \E r \in RangeOf(vresults.valid) :
              r.file = p /\ k \in RangeOf(r.ha_sections)

\* C6 as stated: every sequence document with an element that is a mapping
\* with the key "alias" gets ha_sections = ['automation_list'] and no
\* list-shape warning.
C6_Original ==
    \A p \in ValidatedPaths :
        Doc(p).readable /\ Doc(p).alias_list =>
            \A r \in ResultsOf(p) :
                /\ r.ha_sections = <<"automation_list">>
                /\ ListShapeWarning \notin RangeOf(r.warnings)

\* C6: every sequence document whose trimmed content has at least 10
\* characters and that has an element that is a mapping with the key "alias"
\* gets ha_sections = ['automation_list']; a shorter one is reported too
\* small with no section; neither gets the list-shape warning.
C6_AutomationList ==
    \A p \in ValidatedPaths :
        Doc(p).readable /\ Doc(p).alias_list =>
            \A r \in ResultsOf(p) :
                /\ ListShapeWarning \notin RangeOf(r.warnings)
                /\ IF Doc(p).trimmed >= 10
                   THEN r.valid /\ r.ha_sections = <<"automation_list">>
                   ELSE ~r.valid /\ r.ha_sections = <<>>

\* a sequence whose first element has no "alias" key and whose second has
\* one has been validated and tagged as an automation list
C6_Witness ==
    \E p \in ValidatedPaths :
        /\ Doc(p).alias_list
        /\ ~Doc(p).alias_first
        /\ \E r \in RangeOf(vresults.valid) :
              r.file = p /\ r.ha_sections = <<"automation_list">>

\* C7: for every readable file validated, likely_corrupted is true exactly
\* when one of the three corruption patterns is found in the content read;
\* the "suspicious patterns" warning is then recorded, once, and not
\* otherwise; yaml.safe_load is called whenever the trimmed content has at
\* least 10 characters, whatever the flag.
C7_CorruptionFlag ==
    \A p \in ValidatedPaths :
        Doc(p).readable =>
            /\ (Doc(p).trimmed >= 10) = (p \in parse_calls)
            /\ \A r \in ResultsOf(p) :
                  /\ r.likely_corrupted = Doc(p).pattern_found
                  /\ Cardinality({ i \in 1..Len(r.warnings) :
                                     r.warnings[i] = SuspiciousWarning })
                        = IF r.likely_corrupted THEN 1 ELSE 0

\* two files in which a corruption pattern is found have been validated: one
\* was parsed and is valid, the other made the parser fail, and both keep
\* the flag
C7_Witness ==
    /\ \E r \in RangeOf(vresults.valid) :
          r.likely_corrupted /\ r.file \in parse_calls
    /\ \E r \in RangeOf(vresults.invalid) :
          r.likely_corrupted /\ r.file \in parse_calls /\ r.error # NoError

\* the labels save_file_list of the classifier puts in front of a path
PriorityLabels == {"HIGH_PRIORITY", "AUTOMATION", "SECRETS", "YAML"}

StartsWith(s, t) == Len(s) >= Len(t) /\ SubSeq(s, 1, Len(t)) = t

\* the line without its priority label and colon, when it has one
WithoutLabel(line) ==
    IF \E l \in PriorityLabels : StartsWith(line, l \o ":")
    THEN strip(SubSeq(line, IndexOf(":", line) + 1, Len(line)))
    ELSE line

\* C8 as stated: for every line of the list, the path checked is the line
\* without its priority label and colon when it has one and the line itself
\* otherwise; it is validated exactly when it ends in .yaml, .yml or .txt
\* and exists; the run fails after filtering only when no path is left.
C8_Original ==
    /\ \A i \in 1..Len(checked) :
          LET path == WithoutLabel(checked[i].line)
          IN /\ checked[i].path = path
             /\ checked[i].accepted = (HasListedExtension(path) /\ Exists(path))
    /\ (vpc = "exited" /\ vexit_code = 1 /\ Len(file_paths) > 0)
          => yaml_files = <<>>

\* the number of entries of the sequence s that are the record r
Occurrences(s, r) == Cardinality({ i \in 1..Len(s) : s[i] = r })

\* the results of the files validated, valid and invalid
AllResults == RangeOf(vresults.valid) \cup RangeOf(vresults.invalid)

\* main has written the report
ReportWritten == vpc = "exited" /\ vexit_code = 0

InHaListing(r) == r \in RangeOf(vreport.ha_files)

InAttentionListing(r) == r \in RangeOf(vreport.problem_files)

\* C11 as stated: in the report every validated file is in exactly one of
\* the listing of valid files with a recognized section and the listing of
\* files needing attention, never in both.
C11_Original ==
    ReportWritten =>
        \A r \in AllResults : InHaListing(r) # InAttentionListing(r)

\* C11: in the report every validated file is in at least one of the two
\* listings and the listings hold nothing else; it is in the listing of
\* valid files with a recognized section exactly when it is valid and has
\* one, in the listing of files needing attention exactly when it is
\* invalid, has no recognized section or carries a warning, as many times in
\* a listing as it was validated, and so in both exactly when it is valid,
\* has a recognized section and carries a warning.
C11_Listings ==
    ReportWritten =>
        /\ RangeOf(vreport.ha_files) \cup RangeOf(vreport.problem_files)
              = AllResults
        /\ \A r \in AllResults :
              LET times == Occurrences(vresults.valid, r)
                           + Occurrences(vresults.invalid, r)
                  recognized == r.valid /\ Len(r.ha_sections) > 0
                  attention == ~r.valid \/ Len(r.ha_sections) = 0
                               \/ Len(r.warnings) > 0
              IN /\ Occurrences(vreport.ha_files, r)
                       = IF recognized THEN times ELSE 0
                 /\ Occurrences(vreport.problem_files, r)
                       = IF attention THEN times ELSE 0
                 /\ (InHaListing(r) /\ InAttentionListing(r))
                       = (recognized /\ Len(r.warnings) > 0)

\* a report has been written that lists a valid file with a recognized
\* section and a warning in both listings, and another valid file with a
\* recognized section in the first listing only
C11_Witness ==
    /\ ReportWritten
    /\ \E r \in AllResults :
          /\ r.valid /\ Len(r.ha_sections) > 0 /\ Len(r.warnings) > 0
          /\ InHaListing(r) /\ InAttentionListing(r)
    /\ \E r \in AllResults :
          /\ r.valid /\ Len(r.ha_sections) > 0 /\ Len(r.warnings) = 0
          /\ InHaListing(r) /\ ~InAttentionListing(r)

====
